---- MODULE Spec2Model ----
(***************************************************************************)
(* Termo terminal client (src/Client/client.py): the Client object, its    *)
(* connection retry loop, the menu loop of run(), the command interpreter, *)
(* the status-code handlers and the continue-round exchange.               *)
(*                                                                         *)
(* The program is single threaded; its position is `pc`.  Steps are cut at *)
(* the blocking calls (connect, sleep, input, sendall, recv), which are    *)
(* the places where the user, the server or an interrupt can act.          *)
(* Everything the code does between two blocking calls is one action.      *)
(*                                                                         *)
(* Python's None is the empty tuple; a present value v is <<v>>.           *)
(* Text is a sequence of letters.                                          *)
(***************************************************************************)
EXTENDS Integers, Sequences, FiniteSets, TLC

\* ---------------------------------------------------------------- bounds
MaxStack == 2
MaxAttempts == 1

\* ------------------------------------------------------------- constants
NO_GAME == 1
GAME_IN_PROGRESS == 2
GAME_FINISHED == 3
ConnectTries == 5
ContinueTries == 3

GameStatuses == {NO_GAME, GAME_IN_PROGRESS, GAME_FINISHED}

None == << >>
Some(v) == <<v>>

\* ------------------------------------------------------ input alphabets
\* what the user types and what the server sends: an empty and a two-letter
\* guess with an upper-case letter; an empty encoding, one shorter than the
\* guess, one of its length and one longer than it
Names == {<<"N">>}
Inputs == {"1", "2", "3", "4", "5", "9", ""}
EndInputs == {"1", "2", "9"}
Words == {<< >>, <<"A", "b">>}
Encodings == {<< >>, <<2>>, <<1, 0>>, <<0, 0, 0>>}

\* the status codes of the table in __handle_successful_cases and
\* __handle_error_cases, one unlisted value in each band (207, 450) and one
\* value on each side of the bands (199, 500)
ListedCodes == {200, 201, 202, 203, 204, 205, 206, 400, 401, 402, 403, 404, 405, 499}
StatusCodes == ListedCodes \cup {199, 207, 450, 500}

\* a decoded response: remaining_attempts and word_encoded are optional;
\* `full` says that secret_word, rounds_scores and total_score are supplied.
\* Fields a status never reads are fixed (word_encoded is read for 203 only,
\* the score fields for 202 and for 203 with remaining_attempts = 0).
AttemptValues == {None} \cup {Some(n) : n \in -1..MaxAttempts}
ReadsScores(s, ra) == s = 202 \/ (s = 203 /\ ra = Some(0))
Responses ==
    {r \in [status_code : StatusCodes, remaining_attempts : AttemptValues,
            word_encoded : {None} \cup {Some(e) : e \in Encodings}, full : BOOLEAN] :
        /\ (r.status_code # 203 => r.word_encoded = None)
        /\ (~ReadsScores(r.status_code, r.remaining_attempts) => r.full)}

\* The protocol of the server, which is not part of this repository: the
\* success code that answers each command, the fields that come with it, and
\* the listed error codes.  remaining_attempts is optional except with 203.
\* It is recorded beside the run (in_protocol) and constrains no action.
SuccessOf(cmd) ==
    CASE cmd = "start_game" -> {200}
      [] cmd = "exit_game" -> {201}
      [] cmd = "check_word" -> {202, 203}
      [] cmd = "list_words" -> {204}
      [] cmd = "restart_game" -> {205}
      [] cmd = "continue_game" -> {206}
      [] OTHER -> {}

InProtocol(cmd, par, r) ==
    /\ r.status_code \in ListedCodes
    /\ r.status_code < 400 => r.status_code \in SuccessOf(cmd)
    /\ r.full
    /\ r.remaining_attempts # None => r.remaining_attempts[1] >= 0
    /\ r.status_code = 203 =>
         /\ r.remaining_attempts # None
         /\ r.word_encoded # None
         /\ par # None
         /\ r.word_encoded[1] # << >>
         /\ Len(r.word_encoded[1]) = Len(par[1])

\* ------------------------------------------------------- str.lower()
lower_letter(c) == IF c = "A" THEN "a" ELSE c
lower(w) == [i \in 1..Len(w) |-> lower_letter(w[i])]

\* ------------------------------------------------ utils.LinkedStack
stack_up(stack, item) == <<item>> \o stack
clear(stack) == << >>
size(stack) == Len(stack)
isEmpty(stack) == stack = << >>

\* ------------------------------------------------ Client.__format_output
Colour_yellow_as_green(item) == IF item \in {1, 2} THEN "92" ELSE "90"

Colour(item) == IF item = 2 THEN "92" ELSE IF item = 1 THEN "93" ELSE "90"

format_output(word, format_instructions) ==
    IF word # None /\ word[1] # << >> /\ format_instructions # << >>
    THEN IF Len(format_instructions) > Len(word[1])
         THEN [raised |-> TRUE, val |-> None]
         ELSE [raised |-> FALSE,
               val |-> Some([i \in 1..Len(format_instructions) |->
                               <<Colour(format_instructions[i]), word[1][i], "0">>])]
    ELSE [raised |-> FALSE, val |-> None]

\* ------------------------------------------------ Client.__return_attempts
return_attempts(remaining_attempts, stack) ==
    IF remaining_attempts = None
    THEN [raised |-> TRUE, line |-> << >>]
    ELSE IF remaining_attempts[1] >= 0
         THEN [raised |-> FALSE, line |-> <<"Tentativas Restantes", remaining_attempts[1]>>]
         ELSE [raised |-> FALSE, line |-> <<"Numero de tentativas ate agora", size(stack)>>]

\* `if remaining_attempts == 0` of __handle_successful_cases, case 203
out_of_attempts(remaining_attempts) == remaining_attempts = Some(0)

attempts_left_above_one(remaining_attempts) ==
    remaining_attempts # None /\ remaining_attempts[1] > 1

\* `if remaining_attempts != 0` of __handle_response_status, status 203
attempts_left(remaining_attempts) == remaining_attempts # Some(0)

\* Result of a rendering routine: the stack after it, the lines it printed,
\* whether it raised, and whether it stopped at the reveal animation.
Rendered(stack, out, raised, reveal) ==
    [stack |-> stack, out |-> out, raised |-> raised, reveal |-> reveal]

\* ------------------------------------------ Client.__handle_successful_cases
handle_successful_cases(response_status, stack, remaining_attempts, fmt) ==
    CASE response_status = 200 -> Rendered(stack, <<<<"Jogo Iniciado com Sucesso">>>>, FALSE, FALSE)
      [] response_status = 201 -> Rendered(stack, <<<<"Jogo Finalizado com Sucesso">>>>, FALSE, FALSE)
      [] response_status = 202 ->
            LET att == return_attempts(remaining_attempts, stack) IN
            IF att.raised
            THEN Rendered(stack, << >>, TRUE, FALSE)
            ELSE Rendered(clear(stack),
                          <<<<"Palavra Correta", size(stack)>>, att.line, <<"score table">>>>,
                          FALSE, FALSE)
      [] response_status = 203 ->
            LET pushed == stack_up(stack, fmt)
                att == return_attempts(remaining_attempts, pushed) IN
            IF att.raised
            THEN Rendered(pushed, << >>, TRUE, FALSE)
            ELSE IF out_of_attempts(remaining_attempts)
                 THEN Rendered(clear(pushed), <<<<"Palavra Incorreta">>, att.line>>, FALSE, TRUE)
                 ELSE Rendered(pushed, <<<<"Palavra Incorreta">>, att.line>>, FALSE, FALSE)
      [] response_status = 204 ->
            IF ~isEmpty(stack)
            THEN Rendered(stack, <<<<"Lista de Palavras", size(stack)>>>>, FALSE, FALSE)
            ELSE Rendered(stack, <<<<"Nao ha palavras inseridas nesta rodada">>>>, FALSE, FALSE)
      [] response_status = 205 ->
            Rendered(clear(stack), <<<<"Jogo reiniciado com sucesso">>>>, FALSE, FALSE)
      [] response_status = 206 ->
            Rendered(stack, <<<<"Jogo Continuado com Sucesso">>>>, FALSE, FALSE)
      [] OTHER -> Rendered(stack, << >>, FALSE, FALSE)

handle_error_cases_clearing(response_status, stack, remaining_attempts) ==
    Rendered(clear(stack), <<<<"erro", response_status>>>>, FALSE, FALSE)

\* ------------------------------------------ Client.__handle_error_cases
handle_error_cases(response_status, stack, remaining_attempts) ==
    CASE response_status = 400 -> Rendered(stack, <<<<"Jogo ja iniciado">>>>, FALSE, FALSE)
      [] response_status = 401 -> Rendered(stack, <<<<"Jogo nao iniciado">>>>, FALSE, FALSE)
      [] response_status \in {402, 403, 404, 405} ->
            LET att == return_attempts(remaining_attempts, stack) IN
            IF att.raised
            THEN Rendered(stack, << >>, TRUE, FALSE)
            ELSE Rendered(stack, <<<<"erro de palavra", response_status>>, att.line>>, FALSE, FALSE)
      [] response_status = 499 ->
            IF remaining_attempts # None /\ remaining_attempts[1] # 0
            THEN Rendered(stack,
                          <<<<"Comando invalido">>, return_attempts(remaining_attempts, stack).line>>,
                          FALSE, FALSE)
            ELSE Rendered(stack, <<<<"Comando invalido">>>>, FALSE, FALSE)
      [] OTHER -> Rendered(stack, << >>, FALSE, FALSE)

\* ------------------------------------------ Client.__render_response
render_response(response_status, stack, remaining_attempts, fmt) ==
    IF 200 <= response_status /\ response_status < 400
    THEN handle_successful_cases(response_status, stack, remaining_attempts, fmt)
    ELSE IF 400 <= response_status /\ response_status < 500
         THEN handle_error_cases(response_status, stack, remaining_attempts)
         ELSE Rendered(stack, << >>, FALSE, FALSE)

check_exit_game_always_continue(option) == GAME_IN_PROGRESS

check_exit_game_swapped(option) ==
    IF option = "2" THEN GAME_IN_PROGRESS ELSE GAME_FINISHED

\* ------------------------------------------ Client.__check_exit_game
check_exit_game(option) ==
    IF option = "1" THEN GAME_IN_PROGRESS ELSE GAME_FINISHED

\* ------------------------------------------ Client.__process_user_command
\* user_input is what the guess prompt returns; only the '3' branch prompts.
Interpreted(raised, prompted, cmd, par) ==
    [raised |-> raised, prompted |-> prompted, command |-> cmd, parameter |-> par]

process_user_command_as_typed(user_command, status, name, user_input) ==
    IF user_command = "1" THEN Interpreted(FALSE, FALSE, "start_game", name)
    ELSE IF user_command = "2" THEN Interpreted(FALSE, FALSE, "exit_game", None)
    ELSE IF user_command = "3" /\ status = GAME_IN_PROGRESS
         THEN Interpreted(FALSE, TRUE, "check_word", Some(user_input))
    ELSE IF user_command = "4" /\ status = GAME_IN_PROGRESS
         THEN Interpreted(FALSE, FALSE, "list_words", None)
    ELSE IF user_command = "5" /\ status = GAME_IN_PROGRESS
         THEN Interpreted(FALSE, FALSE, "restart_game", name)
    ELSE Interpreted(TRUE, FALSE, "", None)

process_user_command_unguarded(user_command, status, name, user_input) ==
    IF user_command = "1" THEN Interpreted(FALSE, FALSE, "start_game", name)
    ELSE IF user_command = "2" THEN Interpreted(FALSE, FALSE, "exit_game", None)
    ELSE IF user_command = "3"
         THEN Interpreted(FALSE, TRUE, "check_word", Some(lower(user_input)))
    ELSE IF user_command = "4"
         THEN Interpreted(FALSE, FALSE, "list_words", None)
    ELSE IF user_command = "5"
         THEN Interpreted(FALSE, FALSE, "restart_game", name)
    ELSE Interpreted(TRUE, FALSE, "", None)

process_user_command(user_command, status, name, user_input) ==
    IF user_command = "1" THEN Interpreted(FALSE, FALSE, "start_game", name)
    ELSE IF user_command = "2" THEN Interpreted(FALSE, FALSE, "exit_game", None)
    ELSE IF user_command = "3" /\ status = GAME_IN_PROGRESS
         THEN Interpreted(FALSE, TRUE, "check_word", Some(lower(user_input)))
    ELSE IF user_command = "4" /\ status = GAME_IN_PROGRESS
         THEN Interpreted(FALSE, FALSE, "list_words", None)
    ELSE IF user_command = "5" /\ status = GAME_IN_PROGRESS
         THEN Interpreted(FALSE, FALSE, "restart_game", name)
    ELSE Interpreted(TRUE, FALSE, "", None)

\* ------------------------------------------ Client.__create_request_body
create_request_body(cmd, par) == [command |-> cmd, parameter |-> par]

\* ------------------------------------------ Client.__render_menu_table
menu_table_all_rows(status) == <<"1", "2", "3", "4", "5">>

menu_table(status) ==
    IF status # NO_GAME THEN <<"1", "2", "3", "4", "5">> ELSE <<"1", "2">>

\* ------------------------------------------ Client.__handle_response_status
\* up to the next blocking call: next = "return" (back in run), "animation"
\* (inside the reveal animation of a lost round) or "endgame" (at the
\* end-of-round prompt).  A missing key raises before anything is rendered.
Handled(status, stack, out, raised, next) ==
    [game_status |-> status, stack |-> stack, out |-> out, raised |-> raised, next |-> next]

StatusAfter_exit_forgotten(response_status, status) ==
    IF response_status = 200 THEN GAME_IN_PROGRESS ELSE status

\* the assignments to self.__game_status after statuses 200 and 201
StatusAfter(response_status, status) ==
    IF response_status = 200 THEN GAME_IN_PROGRESS
    ELSE IF response_status = 201 THEN NO_GAME
    ELSE status

handle_response_status(response_status, response_data, par, status, stack) ==
    LET remaining_attempts == response_data.remaining_attempts IN
    IF response_status \in {200, 201}
    THEN LET r == render_response(response_status, stack, None, None) IN
         Handled(StatusAfter(response_status, status), r.stack, r.out, FALSE, "return")
    ELSE IF response_status = 202
    THEN IF ~response_data.full
         THEN Handled(status, stack, << >>, TRUE, "return")
         ELSE LET r == render_response(response_status, stack, remaining_attempts, None) IN
              IF r.raised
              THEN Handled(status, r.stack, r.out, TRUE, "return")
              ELSE Handled(status, r.stack, r.out \o <<<<"A rodada acabou">>>>, FALSE, "endgame")
    ELSE IF response_status = 203
    THEN IF response_data.word_encoded = None
         THEN Handled(status, stack, << >>, TRUE, "return")
         ELSE LET color_str == format_output(par, response_data.word_encoded[1]) IN
              IF color_str.raised
              THEN Handled(status, stack, << >>, TRUE, "return")
              ELSE IF attempts_left(remaining_attempts)
              THEN LET r == render_response(response_status, stack, remaining_attempts, color_str.val) IN
                   Handled(status, r.stack, r.out, r.raised, "return")
              ELSE IF ~response_data.full
              THEN Handled(status, stack, << >>, TRUE, "return")
              ELSE LET r == render_response(response_status, stack, remaining_attempts, color_str.val) IN
                   IF r.raised
                   THEN Handled(status, r.stack, r.out, TRUE, "return")
                   ELSE IF r.reveal
                   THEN Handled(status, r.stack, r.out, FALSE, "animation")
                   ELSE Handled(status, r.stack, r.out \o <<<<"A rodada acabou">>>>, FALSE, "endgame")
    ELSE IF response_status = 206
    THEN LET r == render_response(response_status, stack, None, None) IN
         Handled(status, r.stack, r.out, r.raised, "return")
    ELSE LET r == render_response(response_status, stack, remaining_attempts, None) IN
         Handled(status, r.stack, r.out, r.raised, "return")

\* ------------------------------------------ Client.__send_requisition: recv
\* The socket is a byte stream and the code reads it with one recv of at most
\* MSG_SIZE bytes for each request, without framing.  What a receive does not
\* take stays in the stream and is what the next recv returns first.  The
\* stream is followed by the kind of its oldest unread piece: "none" (nothing
\* is unread: the next recv waits for the reply to the request just sent),
\* "reply" (a complete reply to an earlier request) or "rest" (the rest of a
\* reply that was read in part, because it was longer than MSG_SIZE or came
\* in several segments).  The server answers every request it receives, so
\* behind older data there is always the reply to the newest request.

\* json.loads succeeds: recv returned one complete reply, the oldest unread
reads_reply(stream) == stream \in {"none", "reply"}

after_reply(stream) == stream

reply_of(stream) == IF stream = "none" THEN "latest" ELSE "earlier"

\* recv or json.loads raises, or the document has no status_code: the oldest
\* piece that may be unread afterwards.  A decode error comes from an invalid
\* document, from a reply read in part (its rest stays behind), from such a
\* rest, or from several pieces returned by one recv.
after_failed_read(kind, stream) ==
    IF kind = "OSError" THEN {stream}
    ELSE IF kind = "KeyError"
    THEN IF stream = "rest" THEN {} ELSE {stream}
    ELSE IF stream = "none"
    THEN {"none", "rest"}
    ELSE {"none", "rest", "reply"}

\* ===================================================================== state
VARIABLES
    pc,            \* position of the single thread
    attempts,      \* iterations of the connect loop begun
    conn_fails,    \* connection attempts that failed
    sock,          \* self.__sock: "none", "open" or "closed"
    closes,        \* calls of sock.close()
    game_status,   \* self.__game_status
    user_name,     \* self.__user_name
    words_stack,   \* self.__words_stack, top first
    user_cmd,      \* run: user_cmd
    user_input,    \* __process_user_command: user_input
    command,       \* run: command
    parameter,     \* run: parameter
    resp,          \* response_data of the latest successful receive
    cont_sends,    \* iterations of the continue_game loop begun
    cont_fails,    \* iterations of the continue_game loop that failed
    menu_rows,     \* rows of self.__table shown by the latest menu render
    printed,       \* what the latest step printed
    event,         \* what the latest step was
    sends,         \* sendall calls since the latest menu render
    outstanding,   \* a request was written and its receive has not ended
    last_gs_step,  \* the latest step that assigned self.__game_status
    in_protocol,   \* every reply so far was one the server's protocol allows
    sent,          \* req_body of the latest sendall since the latest menu render
    option,        \* __get_user_end_game_option: usr_input
    backlog,       \* the oldest piece that earlier receives left unread in the socket
    answers        \* the request that the response of the latest receive replies to

vars == <<pc, attempts, conn_fails, sock, closes, game_status, user_name, words_stack,
          user_cmd, user_input, command, parameter, resp, cont_sends, cont_fails,
          menu_rows, printed, event, sends, outstanding, last_gs_step, in_protocol,
          sent, option, backlog, answers>>

\* Client.__init__
Init ==
    /\ pc = "connect"
    /\ attempts = 0
    /\ conn_fails = 0
    /\ sock = "none"
    /\ closes = 0
    /\ game_status = NO_GAME
    /\ user_name = None
    /\ words_stack = << >>
    /\ user_cmd = None
    /\ user_input = None
    /\ command = ""
    /\ parameter = None
    /\ resp = None
    /\ cont_sends = 0
    /\ cont_fails = 0
    /\ menu_rows = << >>
    /\ printed = << >>
    /\ event = "init"
    /\ sends = 0
    /\ outstanding = FALSE
    /\ last_gs_step = "none"
    /\ in_protocol = TRUE
    /\ sent = None
    /\ option = None
    /\ backlog = "none"
    /\ answers = "none"

Session == <<game_status, user_name, words_stack, last_gs_step>>
Locals == <<user_cmd, user_input, command, parameter, resp>>
Wire == <<sends, outstanding, in_protocol>>
Continue == <<cont_sends, cont_fails>>
Connection == <<attempts, conn_fails, sock, closes>>
Exchange == <<sent, option>>
Stream == <<backlog, answers>>

\* ------------------------------------------------ Client.__connect_to_server
\* `for _ in range(5)`: whether another iteration follows the n-th
connect_again_off_by_one(n) == n <= ConnectTries

connect_again(n) == n < ConnectTries

\* one iteration of the loop: socket() and connect()
ConnectAttempt ==
    /\ pc = "connect"
    /\ attempts' = attempts + 1
    /\ \E ok \in BOOLEAN :
         IF ok
         THEN /\ sock' = "open"
              /\ pc' = "nickname"
              /\ event' = "connected"
              /\ printed' = <<<<"Bem vindo">>>>
              /\ UNCHANGED conn_fails
         ELSE /\ conn_fails' = conn_fails + 1
              /\ pc' = "connect_wait"
              /\ event' = "connect_failed"
              /\ printed' = <<<<"Tentando novamente em 5 segundos">>>>
              /\ UNCHANGED sock
    /\ UNCHANGED <<closes, Session, Locals, Continue, Wire, menu_rows, Exchange, Stream>>

\* sleep(5) ends; after the last iteration the loop is left and socket.error
\* is raised, which the outer handler of run prints before run returns
ConnectWaitDone ==
    /\ pc = "connect_wait"
    /\ IF connect_again(attempts)
       THEN /\ pc' = "connect"
            /\ event' = "connect_retry"
            /\ printed' = << >>
       ELSE /\ pc' = "returned"
            /\ event' = "connect_error"
            /\ printed' = <<<<"Nao foi possivel conectar ao servidor">>>>
    /\ UNCHANGED <<Connection, Session, Locals, Continue, Wire, menu_rows, Exchange, Stream>>

\* KeyboardInterrupt during sleep(5): exit(0)
ConnectWaitInterrupt ==
    /\ pc = "connect_wait"
    /\ pc' = "exited"
    /\ event' = "connect_cancelled"
    /\ printed' = <<<<"Encerrando o Termo">>>>
    /\ UNCHANGED <<Connection, Session, Locals, Continue, Wire, menu_rows, Exchange, Stream>>

\* ------------------------------------------------ Client.run, before the loop
\* __get_username
ReadNickname ==
    /\ pc = "nickname"
    /\ \E n \in Names : user_name' = Some(n)
    /\ pc' = "menu"
    /\ event' = "nickname"
    /\ printed' = << >>
    /\ UNCHANGED <<Connection, game_status, words_stack, last_gs_step, Locals, Continue,
                   Wire, menu_rows, Exchange, Stream>>

\* KeyboardInterrupt outside the loop (in connect() or at the nickname
\* prompt) is no Exception: no handler of run catches it
InterruptOutsideLoop ==
    /\ pc \in {"connect", "nickname"}
    /\ pc' = "crashed"
    /\ event' = "uncaught_interrupt"
    /\ printed' = <<<<"Traceback">>>>
    /\ UNCHANGED <<Connection, Session, Locals, Continue, Wire, menu_rows, Exchange, Stream>>

\* ------------------------------------------------ Client.run, the loop
\* __render_menu_table and __print_exit_message
RenderMenu ==
    /\ pc = "menu"
    /\ menu_rows' = menu_table(game_status)
    /\ pc' = "command"
    /\ event' = "menu"
    /\ printed' = <<<<"menu">>, <<"Pressione Ctrl + C para sair do jogo">>>>
    /\ user_cmd' = None
    /\ user_input' = None
    /\ command' = ""
    /\ parameter' = None
    /\ resp' = None
    /\ sends' = 0
    /\ cont_sends' = 0
    /\ cont_fails' = 0
    /\ sent' = None
    /\ option' = None
    /\ answers' = "none"
    /\ UNCHANGED <<Connection, Session, outstanding, in_protocol, backlog>>

\* __get_user_command, then __process_user_command up to its return, its
\* raise or its guess prompt, then __create_request_body
ReadCommand ==
    /\ pc = "command"
    /\ \E c \in Inputs :
         LET r == process_user_command(c, game_status, user_name, << >>) IN
         /\ user_cmd' = Some(c)
         /\ IF r.raised
            THEN /\ pc' = "menu"
                 /\ event' = "invalid"
                 /\ printed' = <<<<"Comando invalido:", c>>>>
                 /\ UNCHANGED <<command, parameter>>
            ELSE IF r.prompted
            THEN /\ pc' = "guess"
                 /\ event' = "guess_prompt"
                 /\ printed' = << >>
                 /\ UNCHANGED <<command, parameter>>
            ELSE /\ pc' = "send"
                 /\ event' = "command"
                 /\ printed' = << >>
                 /\ command' = r.command
                 /\ parameter' = r.parameter
    /\ menu_rows' = << >>
    /\ UNCHANGED <<Connection, Session, user_input, resp, Continue, Wire, Exchange, Stream>>

\* input('Digite uma palavra: ') returns; the rest of __process_user_command
ReadGuess ==
    /\ pc = "guess"
    /\ \E w \in Words :
         LET r == process_user_command(user_cmd[1], game_status, user_name, w) IN
         /\ user_input' = Some(w)
         /\ command' = r.command
         /\ parameter' = r.parameter
    /\ pc' = "send"
    /\ event' = "command"
    /\ printed' = << >>
    /\ UNCHANGED <<Connection, Session, user_cmd, resp, Continue, Wire, menu_rows, Exchange,
                   Stream>>

\* input() raises EOFError at a prompt of the loop: `except Exception` of
\* the loop prints it and the loop goes on
InputFails ==
    /\ pc \in {"command", "guess", "endgame"}
    /\ pc' = "menu"
    /\ event' = "input_failed"
    /\ printed' = <<<<"EOFError">>>>
    /\ menu_rows' = << >>
    /\ UNCHANGED <<Connection, Session, Locals, Continue, Wire, Exchange, Stream>>

\* __send_requisition: sendall
Send ==
    /\ pc = "send"
    /\ sends' = sends + 1
    /\ sent' = Some(create_request_body(command, parameter))
    /\ \E ok \in BOOLEAN :
         IF ok
         THEN /\ pc' = "recv"
              /\ outstanding' = TRUE
              /\ event' = "sent"
              /\ printed' = << >>
         ELSE /\ pc' = "menu"
              /\ outstanding' = FALSE
              /\ event' = "send_failed"
              /\ printed' = <<<<"OSError">>>>
    /\ UNCHANGED <<Connection, Session, Locals, Continue, menu_rows, in_protocol, option,
                   Stream>>

\* a receive failure after which the socket is closed
RecvFails_closing ==
    /\ pc = "recv"
    /\ \E kind \in {"OSError", "JSONDecodeError", "KeyError"} :
         /\ printed' = <<<<kind>>>>
         /\ in_protocol' = (in_protocol /\ kind = "OSError")
    /\ pc' = "menu"
    /\ outstanding' = FALSE
    /\ event' = "recv_failed"
    /\ sock' = "closed"
    /\ closes' = closes + 1
    /\ UNCHANGED <<attempts, conn_fails, Session, Locals, Continue, sends, menu_rows,
                   Exchange, Stream>>

\* __send_requisition: recv raises OSError, json.loads raises JSONDecodeError
\* (a ValueError), or the decoded document has no status_code (KeyError)
RecvFails ==
    /\ pc = "recv"
    /\ \E kind \in {"OSError", "JSONDecodeError", "KeyError"} :
         /\ printed' = <<<<kind>>>>
         /\ in_protocol' = (in_protocol /\ kind = "OSError")
         /\ \E b \in after_failed_read(kind, backlog) : backlog' = b
    /\ pc' = "menu"
    /\ outstanding' = FALSE
    /\ event' = "recv_failed"
    /\ UNCHANGED <<Connection, Session, Locals, Continue, sends, menu_rows, Exchange,
                   answers>>

\* the pushes a response may cause stay within the bound of the model
Fits(r) == r.status_code = 203 => Len(words_stack) < MaxStack

\* __send_requisition returns; __handle_response_status up to its return, its
\* raise, the reveal animation or the end-of-round prompt
RecvResponse ==
    /\ pc = "recv"
    /\ \E r \in Responses :
         LET h == handle_response_status(r.status_code, r, parameter, game_status, words_stack) IN
         /\ Fits(r)
         /\ resp' = Some(r)
         /\ in_protocol' = (in_protocol /\ backlog = "none" /\ InProtocol(command, parameter, r))
         /\ game_status' = h.game_status
         /\ words_stack' = h.stack
         /\ printed' = IF h.raised THEN h.out \o <<<<"Exception">>>> ELSE h.out
         /\ event' = IF h.raised THEN "handler_raised" ELSE "handled"
         /\ pc' = IF h.raised \/ h.next = "return" THEN "menu" ELSE h.next
         /\ last_gs_step' = IF ~h.raised /\ r.status_code \in {200, 201}
                            THEN IF r.status_code = 200 THEN "200" ELSE "201"
                            ELSE last_gs_step
    /\ outstanding' = FALSE
    /\ UNCHANGED <<Connection, user_name, user_cmd, user_input, command, parameter,
                   Continue, sends, menu_rows, Exchange>>
    /\ reads_reply(backlog)
    /\ backlog' = after_reply(backlog)
    /\ answers' = reply_of(backlog)

\* __secret_word_animation ends, __render_score_table, __print_end_game_message
AnimationDone ==
    /\ pc = "animation"
    /\ pc' = "endgame"
    /\ event' = "revealed"
    /\ printed' = <<<<"A palavra era">>, <<"score table">>, <<"A rodada acabou">>>>
    /\ UNCHANGED <<Connection, Session, Locals, Continue, Wire, menu_rows, Exchange, Stream>>

\* __get_user_end_game_option and __check_exit_game
EndGameOption ==
    /\ pc = "endgame"
    /\ \E o \in EndInputs :
         /\ option' = Some(o)
         /\ IF o \notin {"1", "2"}
            THEN /\ event' = "reprompt"
                 /\ printed' = <<<<"Digite uma opcao valida (1/2)">>>>
                 /\ UNCHANGED <<pc, game_status, last_gs_step, sock, closes>>
            ELSE /\ game_status' = check_exit_game(o)
                 /\ last_gs_step' = IF o = "1" THEN "choice1" ELSE "choice2"
                 /\ IF check_exit_game(o) = GAME_FINISHED
                    THEN /\ pc' = "exited"
                         /\ event' = "quit"
                         /\ printed' = <<<<"Ate a proxima">>>>
                         /\ sock' = "closed"
                         /\ closes' = closes + 1
                    ELSE /\ pc' = "cont_send"
                         /\ event' = "continue"
                         /\ printed' = << >>
                         /\ UNCHANGED <<sock, closes>>
    /\ UNCHANGED <<attempts, conn_fails, user_name, words_stack, Locals, Continue, Wire,
                   menu_rows, sent, answers>>
    /\ backlog' = IF pc' = "exited" THEN "none" ELSE backlog

\* ------------------------------------------------ Client.__game_continued_action
\* `for _ in range(3)`: whether another iteration follows the n-th
continue_again_off_by_one(n) == n <= ContinueTries

continue_again(n) == n < ContinueTries

\* after a failed iteration: the next one, or the closing message and return
ContinueFailed(kind) ==
    /\ cont_fails' = cont_fails + 1
    /\ outstanding' = FALSE
    /\ in_protocol' = (in_protocol /\ kind = "OSError")
    /\ IF continue_again(cont_sends')
       THEN /\ pc' = "cont_send"
            /\ event' = "continue_retry"
            /\ printed' = <<<<kind>>>>
       ELSE /\ pc' = "menu"
            /\ event' = "continue_gave_up"
            /\ printed' = <<<<kind>>, <<"Por favor, considere reiniciar">>>>

\* an iteration that writes the request again without reading the reply
ContinueSend_pipelined ==
    /\ pc = "cont_send"
    /\ cont_sends < ContinueTries
    /\ cont_sends' = cont_sends + 1
    /\ sends' = sends + 1
    /\ sent' = Some(create_request_body("continue_game", None))
    /\ pc' = IF cont_sends' < ContinueTries THEN "cont_send" ELSE "cont_recv"
    /\ outstanding' = TRUE
    /\ event' = "continue_sent"
    /\ printed' = << >>
    /\ UNCHANGED <<Connection, Session, Locals, menu_rows, option, cont_fails, in_protocol,
                   Stream>>

\* sendall of one iteration
ContinueSend ==
    /\ pc = "cont_send"
    /\ cont_sends' = cont_sends + 1
    /\ sends' = sends + 1
    /\ sent' = Some(create_request_body("continue_game", None))
    /\ \E ok \in BOOLEAN :
         IF ok
         THEN /\ pc' = "cont_recv"
              /\ outstanding' = TRUE
              /\ event' = "continue_sent"
              /\ printed' = << >>
              /\ UNCHANGED <<cont_fails, in_protocol>>
         ELSE ContinueFailed("OSError")
    /\ UNCHANGED <<Connection, Session, Locals, menu_rows, option, Stream>>

\* recv or json.loads of one iteration raises: the next iteration.  A decoded
\* reply without status_code raises KeyError, which leaves the loop through
\* `except Exception` of run.
ContinueRecvFails ==
    /\ pc = "cont_recv"
    /\ UNCHANGED <<Connection, Session, Locals, cont_sends, sends, menu_rows, Exchange,
                   answers>>
    /\ \E kind \in {"OSError", "JSONDecodeError", "KeyError"} :
         /\ \E b \in after_failed_read(kind, backlog) : backlog' = b
         /\ IF kind = "KeyError"
            THEN /\ pc' = "menu"
                 /\ event' = "continue_raised"
                 /\ printed' = <<<<kind>>>>
                 /\ outstanding' = FALSE
                 /\ in_protocol' = FALSE
                 /\ UNCHANGED cont_fails
            ELSE ContinueFailed(kind)

\* the reply is decoded: __render_response(status, player_name=...) and
\* return; a rendering that raises leaves the loop through `except Exception`
\* of run
ContinueRecvResponse ==
    /\ pc = "cont_recv"
    /\ \E r \in Responses :
         LET h == render_response(r.status_code, words_stack, None, None) IN
         /\ Fits(r)
         /\ resp' = Some(r)
         /\ in_protocol' = (in_protocol /\ backlog = "none"
                              /\ InProtocol("continue_game", None, r))
         /\ words_stack' = h.stack
         /\ printed' = IF h.raised THEN h.out \o <<<<"Exception">>>> ELSE h.out
         /\ event' = IF h.raised THEN "continue_raised" ELSE "continue_rendered"
    /\ pc' = "menu"
    /\ outstanding' = FALSE
    /\ UNCHANGED <<Connection, game_status, user_name, last_gs_step, user_cmd, user_input,
                   command, parameter, Continue, sends, menu_rows, Exchange>>
    /\ reads_reply(backlog)
    /\ backlog' = after_reply(backlog)
    /\ answers' = reply_of(backlog)

\* ------------------------------------------------ Client.__handle_keyboard_interrupt
\* KeyboardInterrupt inside the try of the loop: print, sock.close() and
\* sys.exit(0).  The frame of run is unwound, so its locals are dropped.
LoopPlaces == {"menu", "command", "guess", "send", "recv", "animation", "endgame",
               "cont_send", "cont_recv"}

\* a handler that says goodbye and exits without closing the socket
Interrupt_without_close ==
    /\ pc \in LoopPlaces
    /\ pc' = "exited"
    /\ event' = "interrupted"
    /\ printed' = <<<<"Obrigado por jogar">>>>
    /\ user_cmd' = None
    /\ user_input' = None
    /\ command' = ""
    /\ parameter' = None
    /\ resp' = None
    /\ menu_rows' = << >>
    /\ option' = None
    /\ answers' = "none"
    /\ UNCHANGED <<Connection, Session, Continue, Wire, sent, backlog>>

Interrupt ==
    /\ pc \in LoopPlaces
    /\ pc' = "exited"
    /\ event' = "interrupted"
    /\ printed' = <<<<"Obrigado por jogar">>>>
    /\ sock' = "closed"
    /\ closes' = closes + 1
    /\ user_cmd' = None
    /\ user_input' = None
    /\ command' = ""
    /\ parameter' = None
    /\ resp' = None
    /\ menu_rows' = << >>
    /\ option' = None
    /\ backlog' = "none"
    /\ answers' = "none"
    /\ UNCHANGED <<attempts, conn_fails, Session, Continue, Wire, sent>>

\* input('Digite seu nome: ') raises EOFError: the outer handler of run
\* prints it and run returns
ReadNicknameFails ==
    /\ pc = "nickname"
    /\ pc' = "returned"
    /\ event' = "nickname_failed"
    /\ printed' = <<<<"EOFError">>>>
    /\ UNCHANGED <<Connection, Session, Locals, Continue, Wire, menu_rows, Exchange, Stream>>

Next ==
    \/ ConnectAttempt
    \/ ConnectWaitDone
    \/ ConnectWaitInterrupt
    \/ ReadNickname
    \/ ReadNicknameFails
    \/ InterruptOutsideLoop
    \/ RenderMenu
    \/ ReadCommand
    \/ ReadGuess
    \/ InputFails
    \/ Send
    \/ RecvFails
    \/ RecvResponse
    \/ AnimationDone
    \/ EndGameOption
    \/ ContinueSend
    \/ ContinueRecvFails
    \/ ContinueRecvResponse
    \/ Interrupt

Spec == Init /\ [][Next]_vars

\* ==================================================================== claims
\* the latest step was __handle_response_status on a reply of the main loop
MainHandled == event \in {"handled", "handler_raised"}

\* the reply of the latest receive
Reply == resp[1]

\* the reply carries what the row of its status code reads: the score fields
\* and the secret word where they are read, and for 203 an encoding that is
\* no longer than the text it colours
CarriesFields(r, par) ==
    /\ r.full
    /\ r.status_code = 203 =>
         /\ r.word_encoded # None
         /\ Len(r.word_encoded[1]) <= (IF par = None THEN 0 ELSE Len(par[1]))

\* C1: in every reachable state, if the word-history stack is non-empty then
\* GameStatus is GAME_IN_PROGRESS; in particular the stack is empty whenever
\* GameStatus is NO_GAME.  Stated for the runs in which the server keeps to
\* its protocol, which are among the runs the claim covers.
C1_StackNonEmptyOnlyInProgress ==
    in_protocol => (words_stack # << >> => game_status = GAME_IN_PROGRESS)

\* C2: once the main loop has handled a 202 reply, a 203 reply with
\* remaining_attempts = 0 or a 205 reply that carries the fields of its row,
\* with remaining_attempts absent or non-negative, the word-history stack is
\* empty; and it is empty whenever the end-of-round choice is presented.
\* Stated for the runs in which the server keeps to its protocol.
RoundEnding(r) ==
    \/ r.status_code \in {202, 205}
    \/ r.status_code = 203 /\ r.remaining_attempts = Some(0)

C2_StackEmptyAfterRoundEnd ==
    /\ ( /\ in_protocol
         /\ MainHandled
         /\ RoundEnding(Reply)
         /\ CarriesFields(Reply, parameter)
         /\ (Reply.remaining_attempts = None \/ Reply.remaining_attempts[1] >= 0) )
       => words_stack = << >>
    /\ pc = "endgame" => words_stack = << >>

\* C3: handling a 203 reply with remaining_attempts > 0 pushes exactly one
\* entry, leaves GameStatus unchanged and does not present the end-of-round
\* prompt; handling one with remaining_attempts = 0 leads to the prompt (the
\* reveal animation comes first and the prompt follows it).
Handles203 ==
    /\ pc = "recv"
    /\ event' \in {"handled", "handler_raised"}
    /\ resp'[1].status_code = 203

PushesOne ==
    /\ Len(words_stack') = Len(words_stack) + 1
    /\ Tail(words_stack') = words_stack
    /\ game_status' = game_status
    /\ pc' = "menu"

ReachesPrompt ==
    /\ game_status' = game_status
    /\ words_stack' = << >>
    /\ pc' = "animation"

\* the reveal animation, unless interrupted, ends in the end-of-round prompt
AnimationEndsInPrompt ==
    pc = "animation" /\ event' # "interrupted" => pc' = "endgame"

\* the reply to a guess, in a run that kept to the protocol so far, carries
\* status_code, remaining_attempts and word_encoded, one item for each letter
\* of the guess, as the reply in the example of the specification does
GuessReply ==
    /\ in_protocol
    /\ command = "check_word"
    /\ Handles203
    /\ resp'[1].remaining_attempts # None
    /\ resp'[1].word_encoded # None
    /\ resp'[1].word_encoded[1] # << >>
    /\ Len(resp'[1].word_encoded[1]) = Len(parameter[1])

\* C3 as it was stated, for such replies
C3_Handle203_AsStated ==
    [][ /\ (GuessReply /\ resp'[1].remaining_attempts[1] > 0) => PushesOne
        /\ (GuessReply /\ resp'[1].remaining_attempts[1] = 0) => ReachesPrompt
        /\ AnimationEndsInPrompt ]_vars

\* C3 as amended: for a 203 reply that carries word_encoded, no longer than
\* the text sent, and, with remaining_attempts = 0, the secret word and scores
C3_Handle203 ==
    [][ /\ ( /\ Handles203
             /\ CarriesFields(resp'[1], parameter)
             /\ resp'[1].remaining_attempts # None
             /\ resp'[1].remaining_attempts[1] > 0 ) => PushesOne
        /\ ( /\ Handles203
             /\ CarriesFields(resp'[1], parameter)
             /\ resp'[1].remaining_attempts = Some(0) ) => ReachesPrompt
        /\ AnimationEndsInPrompt ]_vars

C3_Witness ==
    /\ event = "handled"
    /\ Reply.status_code = 203
    /\ Reply.remaining_attempts = Some(1)
    /\ Len(words_stack) = 2
    /\ pc = "menu"

\* C4: the continue-round exchange sends continue_game at most 3 times; k
\* failures (k < 3) followed by a 206 reply give k+1 sends and the message of
\* success; 3 failures give 3 sends, the message recommending a restart, no
\* message of success, and GameStatus stays GAME_IN_PROGRESS.
C4_ContinueRetry ==
    /\ cont_sends <= 3
    /\ (event = "continue_rendered" /\ Reply.status_code = 206) =>
         /\ cont_fails < 3
         /\ cont_sends = cont_fails + 1
         /\ printed = <<<<"Jogo Continuado com Sucesso">>>>
    /\ event = "continue_gave_up" =>
         /\ cont_sends = 3
         /\ cont_fails = 3
         /\ printed[Len(printed)] = <<"Por favor, considere reiniciar">>
         /\ \A i \in 1..Len(printed) : printed[i] # <<"Jogo Continuado com Sucesso">>
         /\ game_status = GAME_IN_PROGRESS
         /\ pc = "menu"
    /\ (cont_fails = 3 /\ pc = "menu") => event = "continue_gave_up"

C4_Witness ==
    /\ event = "continue_rendered"
    /\ Reply.status_code = 206
    /\ cont_fails = 2
    /\ cont_sends = 3

\* C5: connect makes at most 5 attempts; when the first k attempts fail and
\* attempt k+1 succeeds it returns the connection after k+1 attempts; when
\* every attempt fails it fails with the connection error after 5 attempts.
C5_ConnectAttempts ==
    /\ attempts <= 5
    /\ event = "connected" =>
         /\ attempts = conn_fails + 1
         /\ conn_fails <= 4
         /\ sock = "open"
    /\ event = "connect_error" =>
         /\ attempts = 5
         /\ conn_fails = 5
         /\ sock = "none"
         /\ pc = "returned"
         /\ printed = <<<<"Nao foi possivel conectar ao servidor">>>>
    /\ sock = "none" /\ pc = "returned" => event = "connect_error"

C5_Witness ==
    /\ event = "connected"
    /\ conn_fails = 4
    /\ attempts = 5

\* C6: the mapping table of the command interpreter.  "1" and "2" are
\* accepted in any state, "3", "4" and "5" only when GameStatus is
\* GAME_IN_PROGRESS; everything else fails with InvalidCommand.  The guess is
\* lower-cased and not validated.
InvalidCommand == <<"InvalidCommand">>

MappingTable(input, status, name, word) ==
    CASE input = "1" -> <<"start_game", name>>
      [] input = "2" -> <<"exit_game", None>>
      [] input = "3" /\ status = GAME_IN_PROGRESS -> <<"check_word", Some(lower(word))>>
      [] input = "4" /\ status = GAME_IN_PROGRESS -> <<"list_words", None>>
      [] input = "5" /\ status = GAME_IN_PROGRESS -> <<"restart_game", name>>
      [] OTHER -> InvalidCommand

Outcome(r) == IF r.raised THEN InvalidCommand ELSE <<r.command, r.parameter>>

Typed == IF user_input = None THEN << >> ELSE user_input[1]

C6_CommandMapping ==
    /\ pc = "command" =>
         \A c \in Inputs, g \in GameStatuses, n \in Names, w \in Words :
            /\ Outcome(process_user_command(c, g, Some(n), w)) = MappingTable(c, g, Some(n), w)
            /\ process_user_command(c, g, Some(n), w).prompted
                 <=> (c = "3" /\ g = GAME_IN_PROGRESS)
    /\ event = "command" =>
         <<command, parameter>> = MappingTable(user_cmd[1], game_status, user_name, Typed)
    /\ event = "invalid" =>
         MappingTable(user_cmd[1], game_status, user_name, Typed) = InvalidCommand
    /\ pc = "guess" => (user_cmd = Some("3") /\ game_status = GAME_IN_PROGRESS)
    /\ (event = "command" /\ command = "check_word") =>
         (user_input # None /\ parameter = Some(lower(user_input[1])))

C6_Witness ==
    /\ event = "command"
    /\ command = "check_word"
    /\ user_input = Some(<<"A", "b">>)
    /\ parameter = Some(<<"a", "b">>)

\* C7: when the interpreter rejects an input, no request is sent, the guess
\* prompt is not shown, GameStatus, the stack and the socket are unchanged,
\* and the client is back at rendering the menu.
Rejected ==
    /\ pc = "command"
    /\ user_cmd' # None
    /\ MappingTable(user_cmd'[1], game_status, user_name, << >>) = InvalidCommand

C7_InvalidCommandNoEffect ==
    [][ Rejected =>
          /\ event' = "invalid"
          /\ printed' = <<<<"Comando invalido:", user_cmd'[1]>>>>
          /\ pc' = "menu"
          /\ sends' = 0
          /\ UNCHANGED <<game_status, words_stack, sock, closes, outstanding, user_name>> ]_vars

C7_Witness ==
    /\ event = "invalid"
    /\ user_cmd = Some("3")
    /\ game_status = NO_GAME
    /\ pc = "menu"
    /\ sends = 0

\* C8: handling a reply whose status code is in 400-499, or outside 200-499,
\* or an unlisted value inside 200-399, leaves GameStatus and the stack
\* unchanged, presents no end-of-round prompt and sends nothing more before
\* the next menu.
QuietCode(c) ==
    \/ 400 <= c /\ c <= 499
    \/ c < 200
    \/ c > 499
    \/ 200 <= c /\ c <= 399 /\ c \notin {200, 201, 202, 203, 204, 205, 206}

HandlesQuiet ==
    /\ pc \in {"recv", "cont_recv"}
    /\ event' \in {"handled", "handler_raised", "continue_rendered", "continue_raised"}
    /\ resp' # None
    /\ QuietCode(resp'[1].status_code)

C8_ErrorRepliesChangeNothing ==
    [][ HandlesQuiet =>
          /\ UNCHANGED <<game_status, words_stack, sock, closes>>
          /\ pc' = "menu"
          /\ sends' = sends ]_vars

C8_Witness ==
    /\ event = "handled"
    /\ Reply.status_code = 403
    /\ words_stack # << >>
    /\ game_status = GAME_IN_PROGRESS
    /\ pc = "menu"

\* C9: GameStatus starts as NO_GAME and changes only when status 200 is
\* handled (to GAME_IN_PROGRESS), when status 201 is handled (to NO_GAME) and
\* at the end-of-round choice after 202 or 203 with 0 ("1" to
\* GAME_IN_PROGRESS, "2" to GAME_FINISHED); so GameStatus = NO_GAME only if no
\* such step has happened or the latest one was a handling of 201.
Handles(code) ==
    /\ pc = "recv"
    /\ event' = "handled"
    /\ resp'[1].status_code = code

Chooses ==
    /\ pc = "endgame"
    /\ event' \in {"continue", "quit"}
    /\ Reply.status_code = 202 \/ (Reply.status_code = 203 /\ Reply.remaining_attempts = Some(0))

GameStatusStep ==
    /\ Handles(200) => game_status' = GAME_IN_PROGRESS /\ last_gs_step' = "200"
    /\ Handles(201) => game_status' = NO_GAME /\ last_gs_step' = "201"
    /\ (pc = "endgame" /\ event' = "continue") =>
         game_status' = GAME_IN_PROGRESS /\ last_gs_step' = "choice1"
    /\ (pc = "endgame" /\ event' = "quit") =>
         game_status' = GAME_FINISHED /\ last_gs_step' = "choice2"
    /\ ~(Handles(200) \/ Handles(201) \/ Chooses) =>
         UNCHANGED <<game_status, last_gs_step>>

C9_GameStatusChanges ==
    /\ game_status = NO_GAME
    /\ [][GameStatusStep]_vars
    /\ [](game_status = NO_GAME => last_gs_step \in {"none", "201"})

C9_Witness ==
    /\ game_status = NO_GAME
    /\ last_gs_step = "201"
    /\ event = "handled"

\* C10: GameStatus becomes GAME_FINISHED only through the end-of-round choice
\* "2"; with it the client prints the goodbye, closes the socket and exits,
\* and takes no step afterwards: no menu, no command, no request.
BecomesFinished ==
    /\ pc = "endgame"
    /\ event' = "quit"
    /\ last_gs_step' = "choice2"
    /\ printed' = <<<<"Ate a proxima">>>>
    /\ sock = "open"
    /\ sock' = "closed"
    /\ closes' = closes + 1
    /\ pc' = "exited"
    /\ sends' = sends

C10_FinishedIsFinal ==
    [][ /\ game_status # GAME_FINISHED
        /\ (game_status' = GAME_FINISHED => BecomesFinished) ]_vars

C10_Witness ==
    /\ game_status = GAME_FINISHED
    /\ pc = "exited"
    /\ sock = "closed"
    /\ event = "quit"

\* how the process ended: exit(0) and sys.exit(0) end it with status 0, as
\* does the return of run; an exception no handler catches ends it with a
\* traceback and a status other than 0
exit_code ==
    CASE pc = "exited" -> "0"
      [] pc = "returned" -> "0"
      [] pc = "crashed" -> "nonzero"
      [] OTHER -> "running"

Terminated == exit_code # "running"

\* C11: in every run in which connect succeeded and the process then
\* terminates, the socket has been closed exactly once at termination, whether
\* the process ends by the quit choice, by the interrupt handler or by a
\* failure that reaches the outer handler of run.
C11_SocketClosedOnce ==
    (Terminated /\ sock # "none") => (sock = "closed" /\ closes = 1)

\* C12: at most one request is outstanding: whenever the client writes a
\* request, in the main loop or in an iteration of the continue-round exchange,
\* no earlier request is still waiting for its receive; a request is waiting
\* only while the client is at a receive (or was interrupted there).
C12_OneOutstanding ==
    [][ /\ sends' = sends + 1 => (~outstanding /\ pc \in {"send", "cont_send"})
        /\ outstanding' => pc' \in {"recv", "cont_recv", "exited"} ]_vars

C12_Witness ==
    /\ event = "continue_sent"
    /\ cont_sends = 3
    /\ cont_fails = 2
    /\ outstanding
    /\ sent = Some(create_request_body("continue_game", None))

\* C13: when a 202, 402, 403, 404 or 405 reply does not supply
\* remaining_attempts, its handling completes normally and the attempts line
\* reports the attempts so far as the size of the word history; for 202 the
\* stack is then cleared and the end-of-round choice presented.  Stated for
\* replies to a guess in the runs in which the server keeps to its protocol.
AttemptsSoFar(line) == Len(line) = 2 /\ line[1] = "Numero de tentativas ate agora"

C13_AttemptsSoFar ==
    ( /\ in_protocol
      /\ MainHandled
      /\ command = "check_word"
      /\ Reply.status_code \in {202, 402, 403, 404, 405}
      /\ Reply.remaining_attempts = None )
    => /\ event = "handled"
       /\ \E i \in 1..Len(printed) : AttemptsSoFar(printed[i])
       /\ Reply.status_code # 202 =>
            /\ \E i \in 1..Len(printed) : printed[i][2] = size(words_stack)
            /\ pc = "menu"
       /\ Reply.status_code = 202 => (words_stack = << >> /\ pc = "endgame")

\* C14: an interrupt raised at any point of an iteration of the main loop
\* (menu, command prompt, guess prompt, send, receive, reveal animation,
\* end-of-round prompt, continue-round exchange) can be taken there, and it
\* leads to the interrupted-goodbye message, the socket being closed and the
\* process ending with exit code 0; no request is sent with it or after it.
IterationPoints == {"menu", "command", "guess", "send", "recv", "animation", "endgame",
                    "cont_send", "cont_recv"}

InterruptRaised ==
    /\ pc \in IterationPoints
    /\ event' \in {"interrupted", "uncaught_interrupt"}

C14_InterruptInLoop ==
    /\ [](pc \in IterationPoints => ENABLED Interrupt)
    /\ [][ InterruptRaised =>
              /\ event' = "interrupted"
              /\ printed' = <<<<"Obrigado por jogar">>>>
              /\ sock = "open"
              /\ sock' = "closed"
              /\ closes' = closes + 1
              /\ pc' = "exited"
              /\ exit_code' = "0"
              /\ sends' = sends
              /\ sent' = sent ]_vars
    /\ [][ pc # "exited" ]_vars

C14_Witness ==
    /\ event = "interrupted"
    /\ exit_code = "0"
    /\ sock = "closed"
    /\ closes = 1
    /\ cont_sends = 2
    /\ outstanding

\* C15: at every menu render the options displayed are exactly the inputs
\* the command interpreter accepts in that state: 1 and 2 when GameStatus is
\* NO_GAME, 1 to 5 in order when it is GAME_IN_PROGRESS; GameStatus is never
\* GAME_FINISHED at a menu render.
Displayed(c) == \E i \in 1..Len(menu_rows) : menu_rows[i] = c

Accepted(c) == ~process_user_command(c, game_status, user_name, << >>).raised

C15_MenuMatchesInterpreter ==
    /\ pc = "command" <=> event = "menu"
    /\ event = "menu" =>
         /\ game_status # GAME_FINISHED
         /\ game_status = NO_GAME => menu_rows = <<"1", "2">>
         /\ game_status = GAME_IN_PROGRESS => menu_rows = <<"1", "2", "3", "4", "5">>
         /\ \A c \in Inputs : Displayed(c) <=> Accepted(c)

C15_Witness ==
    /\ event = "menu"
    /\ game_status = GAME_IN_PROGRESS
    /\ menu_rows = <<"1", "2", "3", "4", "5">>
    /\ words_stack # << >>

\* C16: at the end-of-round prompt an input other than '1' and '2' only
\* causes a re-prompt and changes no state; on '1' GameStatus becomes
\* GAME_IN_PROGRESS and the continue-round exchange, a continue_game request
\* with no parameter, is performed before the next menu render; on '2' no
\* continue_game request is sent: the process ends and takes no further step.
Answers ==
    /\ pc = "endgame"
    /\ event' \in {"reprompt", "continue", "quit"}

ContinueRequest == Some([command |-> "continue_game", parameter |-> None])

C16_EndOfRoundChoice ==
    /\ [][ Answers =>
              /\ option' # None
              /\ option'[1] \notin {"1", "2"} =>
                   /\ event' = "reprompt"
                   /\ pc' = "endgame"
                   /\ UNCHANGED <<game_status, words_stack, user_name, sock, closes, sends,
                                  sent, cont_sends>>
              /\ option'[1] = "1" =>
                   /\ game_status' = GAME_IN_PROGRESS
                   /\ pc' = "cont_send"
                   /\ cont_sends' = 0
                   /\ sends' = sends
              /\ option'[1] = "2" =>
                   /\ pc' = "exited"
                   /\ sends' = sends
                   /\ sent' = sent ]_vars
    /\ [][ (pc = "cont_send" /\ event' # "interrupted") =>
              /\ sends' = sends + 1
              /\ cont_sends' = cont_sends + 1
              /\ sent' = ContinueRequest ]_vars
    /\ [][ (pc \in {"endgame", "cont_send", "cont_recv"}) => (event' # "menu") ]_vars
    /\ [][ (option = Some("1") /\ event' = "menu") =>
              (cont_sends >= 1 /\ sent = ContinueRequest) ]_vars
    /\ [][ option # Some("2") ]_vars

C16_Witness ==
    /\ event = "continue_rendered"
    /\ option = Some("1")
    /\ game_status = GAME_IN_PROGRESS
    /\ sent = ContinueRequest
    /\ Reply.status_code = 206
    /\ pc = "menu"

\* C17: on a 499 reply the attempts line is printed after the
\* invalid-command message when the reply supplies remaining_attempts, for
\* every integer supplied including 0, and is omitted when the reply does not
\* supply it.  Stated for the replies handled by the main loop in the runs in
\* which the server keeps to its protocol (remaining_attempts >= 0).
C17_AttemptsLineOn499 ==
    (in_protocol /\ event = "handled" /\ Reply.status_code = 499) =>
        IF Reply.remaining_attempts # None
        THEN printed = <<<<"Comando invalido">>,
                         <<"Tentativas Restantes", Reply.remaining_attempts[1]>>>>
        ELSE printed = <<<<"Comando invalido">>>>

\* C18: in connect, every retry notice and 5-second wait that is not
\* interrupted is followed by a further connection attempt; so the 5th
\* failure starts no wait (a run in which all 5 attempts fail has 4 waits)
\* and the connection error is raised directly after the 5th failure.
C18_WaitThenRetry ==
    /\ [](pc = "connect_wait" => conn_fails < ConnectTries)
    /\ [][ (pc = "connect_wait" /\ event' # "connect_cancelled") =>
              (pc' = "connect" /\ event' = "connect_retry") ]_vars
    /\ [][ event' = "connect_error" => (pc = "connect" /\ conn_fails' = conn_fails + 1) ]_vars

\* C19: if the send or the receive of a routine request of the main loop
\* fails with a transport or decode error, the failure is printed, GameStatus
\* and the word history are unchanged, the socket is neither closed nor
\* reopened, and the client goes back to rendering the menu.
RoutineFailure ==
    /\ pc \in {"send", "recv"}
    /\ event' \in {"send_failed", "recv_failed"}

C19_RoutineFailureRecovers ==
    /\ [][ RoutineFailure =>
              /\ Len(printed') = 1
              /\ printed'[1][1] \in {"OSError", "JSONDecodeError", "KeyError"}
              /\ sock = "open"
              /\ UNCHANGED <<game_status, words_stack, user_name, sock, closes, attempts>>
              /\ ~outstanding'
              /\ pc' = "menu" ]_vars
    /\ [][ (pc = "menu" /\ event' # "interrupted") => (event' = "menu" /\ pc' = "command") ]_vars

C19_Witness ==
    /\ event = "recv_failed"
    /\ printed = <<<<"JSONDecodeError">>>>
    /\ words_stack # << >>
    /\ game_status = GAME_IN_PROGRESS
    /\ sock = "open"
    /\ closes = 0
    /\ pc = "menu"

\* C20: for every non-empty word and every encoding over {0,1,2} of the same
\* length, colorize returns, in index order, one segment per letter: the
\* letter wrapped in bright green (92) if its code is 2, bright yellow (93) if
\* 1, dim gray (90) if 0, each followed by a reset; this is exactly the entry
\* pushed onto the word history when the 203 reply for that guess is handled.
\* For an absent or empty word or encoding it produces no output.
Letters == {"a", "b"}
Codes == {0, 1, 2}
MaxWord == 2
NonEmptyWords == UNION {[1..n -> Letters] : n \in 1..MaxWord}

EscapeOf(code) == CASE code = 2 -> "92" [] code = 1 -> "93" [] code = 0 -> "90"

Colorized(word, encoding) ==
    [i \in 1..Len(word) |-> <<EscapeOf(encoding[i]), word[i], "0">>]

NoOutput == [raised |-> FALSE, val |-> None]

Pushes ==
    /\ pc = "recv"
    /\ Len(words_stack') = Len(words_stack) + 1

C20_Colorize ==
    /\ \A w \in NonEmptyWords : \A e \in [1..Len(w) -> Codes] :
         format_output(Some(w), e) = [raised |-> FALSE, val |-> Some(Colorized(w, e))]
    /\ \A w \in NonEmptyWords : \A e \in [1..Len(w) -> Codes] :
         /\ format_output(None, e) = NoOutput
         /\ format_output(Some(<< >>), e) = NoOutput
         /\ format_output(Some(w), None) = NoOutput
         /\ format_output(Some(w), << >>) = NoOutput
    /\ [][ Pushes =>
              /\ resp' # None
              /\ resp'[1].status_code = 203
              /\ resp'[1].word_encoded # None
              /\ Tail(words_stack') = words_stack
              /\ words_stack'[1] = format_output(parameter, resp'[1].word_encoded[1]).val
              /\ ( /\ parameter # None
                   /\ parameter[1] # << >>
                   /\ Len(resp'[1].word_encoded[1]) = Len(parameter[1])
                   /\ \A i \in 1..Len(parameter[1]) : resp'[1].word_encoded[1][i] \in Codes )
                 => words_stack'[1] = Some(Colorized(parameter[1], resp'[1].word_encoded[1])) ]_vars

C20_Witness ==
    /\ event = "handled"
    /\ Reply.status_code = 203
    /\ Reply.word_encoded = Some(<<1, 0>>)
    /\ parameter = Some(<<"a", "b">>)
    /\ words_stack # << >>
    /\ words_stack[1] = Some(<< <<"93", "a", "0">>, <<"90", "b", "0">> >>)

\* C21: every response the client interprets is the server's reply to the
\* request the client sent most recently, also in runs in which an earlier
\* receive failed to decode, an earlier response was longer than the buffer,
\* or a continue_game request was sent again after a failed receive.
Interprets ==
    /\ event \in {"handled", "handler_raised", "continue_rendered", "continue_raised"}
    /\ resp # None

C21_ReplyToLatestRequest == Interprets => answers = "latest"

====
